---------------------------- MODULE Spec2Model ----------------------------
(***************************************************************************)
(* Model of the SSM password-update tools                                  *)
(*   src/updates_pass_ip.py        (variant "ip":  resolve, verify SSM     *)
(*                                  availability, dispatch, poll, report)  *)
(*   src/reset_password_aws_cli.py (variant "cli": resolve, dispatch,      *)
(*                                  poll, report)                          *)
(* One run of main() is one behaviour.  The external collaborators (EC2    *)
(* inventory, the SSM channel, the operator at the prompts) answer         *)
(* nondeterministically.                                                   *)
(***************************************************************************)
EXTENDS Integers, Sequences, FiniteSets, TLC

VARIABLES
    variant,               \* "ip" or "cli": the script whose main() runs;
                           \* "call": update_password is called on its own
    pc,                    \* position of main()
    exit_code,             \* -1 while running, else the status of sys.exit / normal end
    instance_ids,          \* list returned by the resolution stage
    unresolved,            \* the requested addresses that got no instance, in request order
    warned,                \* the addresses printed by name as not found
    tag_match,             \* lifecycle state of the instances the tag query answered with, else <<>>
    servers,               \* password_update.py main: the lines of servers.txt
    ssh_results,           \* password_update.py main: results, one entry per attempt
    clients,               \* password_update.py: the SSH clients created, one per call
    sleeps,                \* update_password: the calls of time.sleep(10) made so far
    queries,               \* update_password: the calls of get_command_invocation made so far
    summary,               \* password_update.py main: what the summary printed
    listing,               \* outcome of describe_instance_information: "none" | "ok" | "failed"
    available_instances,   \* verify_ssm_availability()[0]
    unavailable_instances, \* verify_ssm_availability()[1]
    sent,                  \* the InstanceIds lists handed to ssm.send_command, in order
    results,               \* update_password: results dict, id -> [status, message]
    retries,               \* update_password: retries
    all_complete,          \* update_password: all_complete
    idx,                   \* position of the for loop over instance_ids inside a round
    username,              \* the user whose password is changed
    new_password,          \* the secret typed at the prompt
    command_id,            \* update_password: command_id
    ret,                   \* what update_password returned to its caller
    last_query,            \* <<id, answer, command id>> of the get_command_invocation call of the last step, else <<>>
    report                 \* what main() prints after update_password returned

vars == <<variant, pc, exit_code, instance_ids, unresolved, warned, tag_match,
          servers, ssh_results, clients, summary, sleeps, queries, listing, available_instances,
          unavailable_instances, sent, results, retries, all_complete, idx,
          username, new_password, command_id, ret, last_query, report>>

---------------------------------------------------------------------------
(* Bounds of the model and the finite universes inputs are drawn from.     *)

MaxLen == 2                          \* longest selector list typed or read from a file
MaxCallLen == 2                      \* longest list of a direct call of update_password

InstanceIds == {"i-1", "i-2"}        \* canonical ids known to the inventory
PrivateIps  == {"10.0.0.5", "10.0.0.6"}
NoInstance  == "none"

Usernames   == {"alice"}
Passwords   == {"secret-A", "secret-B"}
NoInput     == "<none>"
CommandIds  == {"cmd-1"}             \* ids the channel may give a submitted command
NoCommand   == "<no command>"
Hostnames   == {"host-a", "host-b"}  \* lines servers.txt may hold

max_retries == 30                    \* update_password: max_retries

SeqsUpTo(S, n) == UNION {[1..k -> S] : k \in 0..n}

Range(s) == {s[i] : i \in DOMAIN s}

\* the orders in which a Python dict / set with these members can be iterated
Orderings(S) == {s \in [1..Cardinality(S) -> S] : Range(s) = S}

\* [x for x in s if x not in excluded]
RECURSIVE Without(_, _)
Without(s, excluded) ==
    IF s = <<>> THEN <<>>
    ELSE IF Head(s) \in excluded THEN Without(Tail(s), excluded)
         ELSE <<Head(s)>> \o Without(Tail(s), excluded)

---------------------------------------------------------------------------
(* The channel's vocabulary.                                               *)

\* result['Status'] values of get_command_invocation used in the model
RawStatuses == {"Pending", "InProgress", "Delayed", "Success", "Failed", "TimedOut"}

\* a ClientError whose text holds "InvalidInstanceId", any other ClientError,
\* and an exception that is no ClientError
ErrInvalidInstance == "ClientError:InvalidInstanceId"
ErrClient          == "ClientError:Other"
ErrOther           == "Exception"

Answers == RawStatuses \cup {ErrInvalidInstance, ErrClient, ErrOther}

MsgSuccess  == "Password updated successfully"
MsgFailed   == "Failed: <StandardErrorContent>"
MsgNotFound == "Instance not found or not configured for SSM"
MsgClient   == "<str(e)>"
MsgStatus(status) == "Status: " \o status

Outcome(status, message) == [status |-> status, message |-> message]


---------------------------------------------------------------------------
(* update_password: the body of the polling loop.                          *)

\* NeedsPoll with the skip of finished targets left out
NeedsPollAlways(status) == TRUE

\* NeedsPoll with a skip of successful targets only
NeedsPollUnlessSuccess(status) == status # "Success"

\* lines 285 / 104: the statuses for which the loop still queries the channel
NeedsPoll(status) == status \in {"Pending", "InProgress"}

\* lines 299-300 / 118-119: the answers that clear all_complete
KeepsPolling(answer) == answer \in {"Pending", "InProgress"}

\* lines 292-310 / 111-129: the results entry after get_command_invocation
\* answered `answer` for a target whose entry was `prev`
Recorded(prev, answer) ==
    IF answer \in RawStatuses THEN
        CASE answer = "Success" -> Outcome(answer, MsgSuccess)
          [] answer = "Failed"  -> Outcome(answer, MsgFailed)
          [] KeepsPolling(answer) -> Outcome(answer, prev.message)
          [] OTHER -> Outcome(answer, MsgStatus(answer))
    ELSE IF answer = ErrInvalidInstance THEN Outcome("Failed", MsgNotFound)
    ELSE IF answer = ErrClient THEN Outcome("Error", MsgClient)
    ELSE prev   \* the exception leaves the try block: nothing is assigned

\* VisitInstance with the rest of a round skipped once a target was seen running
VisitInstanceShortCircuit(st, id, answer) ==
    IF NeedsPoll(st.results[id].status) /\ st.all_complete THEN
        [results      |-> [st.results EXCEPT ![id] = Recorded(@, answer)],
         all_complete |-> st.all_complete /\ ~KeepsPolling(answer),
         raised       |-> answer = ErrOther,
         queried      |-> TRUE]
    ELSE [st EXCEPT !.queried = FALSE]

\* lines 284-310 / 103-129: one pass of the for loop body for target `id`.
\* st = [results, all_complete, raised, queried]
VisitInstance(st, id, answer) ==
    IF NeedsPoll(st.results[id].status) THEN
        [results      |-> [st.results EXCEPT ![id] = Recorded(@, answer)],
         all_complete |-> st.all_complete /\ ~KeepsPolling(answer),
         raised       |-> answer = ErrOther,
         queried      |-> TRUE]
    ELSE [st EXCEPT !.queried = FALSE]

\* lines 284-310 / 103-129: the whole for loop of one round over `ids`, the
\* channel answering answers[id] for target id; an exception ends the loop
RECURSIVE PollRound(_, _, _)
PollRound(ids, st, answers) ==
    IF ids = <<>> \/ st.raised THEN st
    ELSE PollRound(Tail(ids), VisitInstance(st, Head(ids), answers[Head(ids)]), answers)

\* lines 262-264 / 89-91: results = {id: Pending} for every dispatched id
InitialResults(ids) == [id \in Range(ids) |-> Outcome("Pending", "")]

---------------------------------------------------------------------------
(* main: the report.                                                       *)

\* lines 387-388 / 222-223
SuccessCount(res) == Cardinality({id \in DOMAIN res : res[id].status = "Success"})

\* FailedCount as the number of entries whose status is literally Failed
FailedCountFailedOnly(ids, res) ==
    Cardinality({id \in DOMAIN res : res[id].status = "Failed"})

\* lines 391 / 226: len(instances) - success_count
FailedCount(ids, res) == Len(ids) - SuccessCount(res)

\* lines 393-397 / 228-232: the ids printed under "Instances with errors:"
ErrorsListed(ids, res) ==
    IF FailedCount(ids, res) > 0
    THEN {id \in DOMAIN res : res[id].status # "Success"}
    ELSE {}

\* the list main hands to update_password and uses as the report's denominator
Targets == IF variant = "ip" THEN available_instances ELSE instance_ids

\* the dict update_password returns: lines 241, 314, 317 / 68, 131, 134
MsgNoInstances == "No instances provided"
MsgSendError   == "Error sending command: <str(e)>"
NotReturned    == [returned |-> FALSE, success |-> FALSE, message |-> ""]
Failure(message) == [returned |-> TRUE, success |-> FALSE, message |-> message]
Success        == [returned |-> TRUE, success |-> TRUE, message |-> ""]

NoReport == [success_count |-> -1, failed_count |-> -1, total |-> -1, errors |-> {}]
NoSummary == [success_count |-> -1, failed_count |-> -1, total |-> -1, errors |-> <<>>]

---------------------------------------------------------------------------
(* The state after the interpreter started main().                         *)

Init ==
    /\ variant \in {"ip", "cli", "call", "ssh"}
    /\ pc = IF variant = "ssh" THEN "servers" ELSE "select"
    /\ servers = <<>>
    /\ ssh_results = <<>>
    /\ clients = <<>>
    /\ sleeps = 0
    /\ queries = 0
    /\ summary = NoSummary
    /\ exit_code = -1
    /\ instance_ids = <<>>
    /\ unresolved = <<>>
    /\ warned = <<>>
    /\ tag_match = <<>>
    /\ listing = "none"
    /\ available_instances = <<>>
    /\ unavailable_instances = <<>>
    /\ sent = <<>>
    /\ results = <<>>
    /\ retries = 0
    /\ all_complete = FALSE
    /\ idx = 0
    /\ username = NoInput
    /\ new_password = NoInput
    /\ command_id = NoCommand
    /\ ret = NotReturned
    /\ last_query = <<>>
    /\ report = NoReport

\* sys.exit(code)
Exit(code) ==
    /\ pc' = "exit"
    /\ exit_code' = code

\* an exception that nothing catches ends the interpreter with status 1
Crash ==
    /\ pc' = "crashed"
    /\ exit_code' = 1

\* the resolution stage returned `ids`: main goes on, or exits when there are none
Resolved(ids) ==
    IF ids = <<>>
    THEN /\ Exit(1)
         /\ UNCHANGED instance_ids
    ELSE /\ instance_ids' = ids
         /\ pc' = IF variant = "ip" THEN "verify" ELSE "prompt"
         /\ UNCHANGED exit_code

\* get_instance_ids_from_ips (updates_pass_ip.py 17-48) for the inventory
\* `inv` (address -> running instance with that primary address, or none):
\* the dict ip -> instance id
IpToInstance(private_ips, inv) ==
    [ip \in {a \in Range(private_ips) : inv[a] # NoInstance} |-> inv[ip]]

\* the inventories: an instance has one primary private address
Inventories ==
    {inv \in [PrivateIps -> InstanceIds \cup {NoInstance}] :
        \A a, b \in PrivateIps : (a # b /\ inv[a] # NoInstance) => inv[a] # inv[b]}

\* lines 89 / 172: not_found = [ip for ip in private_ips if ip not in ip_to_instance]
NotFound(private_ips, ip_to_instance) == Without(private_ips, DOMAIN ip_to_instance)

\* get_instance_info choices 1 and 4 (updates_pass_ip.py 70-98, 154-176)
SelectByAddress ==
    /\ pc = "select"
    /\ variant = "ip"
    /\ \E private_ips \in SeqsUpTo(PrivateIps, MaxLen), ec2_fails \in BOOLEAN,
          inv \in Inventories :
         LET ip_to_instance == IF ec2_fails THEN <<>> ELSE IpToInstance(private_ips, inv)
         IN  /\ unresolved' = Without(private_ips, DOMAIN ip_to_instance)
             /\ IF private_ips = <<>> \/ DOMAIN ip_to_instance = {}
                THEN \* lines 75-83 / 158-166: a general error, then sys.exit(1)
                     /\ Exit(1)
                     /\ warned' = <<>>
                     /\ UNCHANGED instance_ids
                ELSE /\ warned' = NotFound(private_ips, ip_to_instance)
                     /\ \E order \in Orderings(DOMAIN ip_to_instance) :
                           Resolved([i \in DOMAIN order |-> ip_to_instance[order[i]]])
    /\ UNCHANGED <<variant, sleeps, queries, clients, servers, ssh_results, summary, tag_match, username, new_password, command_id, ret,
                   listing, available_instances, unavailable_instances,
                   sent, results, retries, all_complete, idx, last_query, report>>

\* get_instance_info choices 2 and 5 (updates_pass_ip.py 100-114, 178-186);
\* main choices 1 and 3 (reset_password_aws_cli.py 152-162, 179-181)
SelectById ==
    /\ pc = "select"
    /\ variant # "call"
    /\ \E ids \in SeqsUpTo(InstanceIds, MaxLen) : Resolved(ids)
    /\ UNCHANGED <<variant, sleeps, queries, clients, servers, ssh_results, summary, unresolved, warned, tag_match, username, new_password, command_id, ret, listing, available_instances, unavailable_instances,
                   sent, results, retries, all_complete, idx, last_query, report>>

\* IsIncluded that drops only the instances the filter does not match
IsIncludedUnlessUnmatched(state) == state # "unmatched"

\* lines 136 / 38: instance['State']['Name'] == 'running'
IsIncluded(state) == state = "running"

\* get_instance_info choice 3 (updates_pass_ip.py 116-152);
\* main choice 2 and get_instance_ids (reset_password_aws_cli.py 164-177, 31-44).
\* `state` gives the lifecycle state of each instance the tag filter matches.
SelectByTag ==
    /\ pc = "select"
    /\ variant # "call"
    /\ \E no_tags \in BOOLEAN, ec2_fails \in BOOLEAN,
          state \in [InstanceIds -> {"unmatched", "running", "stopped"}] :
         IF no_tags \/ ec2_fails
         THEN /\ Exit(1)
              /\ UNCHANGED <<instance_ids, tag_match>>
         ELSE /\ tag_match' = state
              /\ \E order \in Orderings({i \in InstanceIds : IsIncluded(state[i])}) :
                    Resolved(order)
    /\ UNCHANGED <<variant, sleeps, queries, clients, servers, ssh_results, summary, unresolved, warned, username, new_password, command_id, ret,
                   listing, available_instances, unavailable_instances,
                   sent, results, retries, all_complete, idx, last_query, report>>

\* update_password(instance_ids, username, new_password) called by another
\* caller than main, with any list (updates_pass_ip.py 228-239;
\* reset_password_aws_cli.py 55-66)
CallUpdatePassword ==
    /\ pc = "select"
    /\ variant = "call"
    /\ \E ids \in SeqsUpTo(InstanceIds, MaxCallLen) : instance_ids' = ids
    /\ username' \in Usernames
    /\ new_password' \in Passwords
    /\ pc' = "dispatch"
    /\ UNCHANGED <<variant, sleeps, queries, clients, servers, ssh_results, summary, unresolved, warned, tag_match, command_id, ret, exit_code, listing, available_instances,
                   unavailable_instances, sent, results, retries, all_complete,
                   idx, last_query, report>>

\* updates_pass_ip.py 188-190; reset_password_aws_cli.py 183-185
InvalidChoice ==
    /\ pc = "select"
    /\ variant # "call"
    /\ Exit(1)
    /\ UNCHANGED <<variant, sleeps, queries, clients, servers, ssh_results, summary, unresolved, warned, tag_match, username, new_password, command_id, ret, instance_ids, listing, available_instances,
                   unavailable_instances, sent, results, retries, all_complete,
                   idx, last_query, report>>

---------------------------------------------------------------------------
(* verify_ssm_availability and main's guard on its result.                 *)

\* updates_pass_ip.py 213-221: the registered ids that were asked for, as the
\* list made from the set (any order), and the asked ids that are not among them
AvailableSets(ids, registered) == Orderings(Range(ids) \cap registered)

\* Unavailable with every asked instance listed, the reachable ones included
UnavailableAll(ids, available) == ids

\* updates_pass_ip.py 220: [id for id in instance_ids if id not in available_instances]
Unavailable(ids, available) == Without(ids, Range(available))

\* OnListingError with every asked instance assumed reachable
OnListingErrorAssumeAll(ids) == [available |-> ids, unavailable |-> <<>>]

\* updates_pass_ip.py 223-225: what verify_ssm_availability returns when the
\* listing raises a ClientError
OnListingError(ids) == [available |-> <<>>, unavailable |-> ids]

\* updates_pass_ip.py 337-343: main exits when nothing is available
AbortsAfterVerify(available) == available = <<>>

\* updates_pass_ip.py 199-225 and 335-343.  `registered` is the union of all
\* pages of describe_instance_information.
VerifySsm ==
    /\ pc = "verify"
    /\ \E answer \in {"ok", ErrClient, ErrOther}, registered \in SUBSET InstanceIds :
         CASE answer = ErrOther ->
                /\ Crash
                /\ listing' = "failed"
                /\ UNCHANGED <<available_instances, unavailable_instances>>
           [] answer = ErrClient ->
                /\ listing' = "failed"
                /\ available_instances' = OnListingError(instance_ids).available
                /\ unavailable_instances' = OnListingError(instance_ids).unavailable
                /\ IF AbortsAfterVerify(OnListingError(instance_ids).available)
                   THEN Exit(1)
                   ELSE pc' = "prompt" /\ UNCHANGED exit_code
           [] OTHER ->
                \E available \in AvailableSets(instance_ids, registered) :
                   /\ listing' = "ok"
                   /\ available_instances' = available
                   /\ unavailable_instances' = Unavailable(instance_ids, available)
                   /\ IF AbortsAfterVerify(available)
                      THEN Exit(1)
                      ELSE pc' = "prompt" /\ UNCHANGED exit_code
    /\ UNCHANGED <<variant, sleeps, queries, clients, servers, ssh_results, summary, unresolved, warned, tag_match, username, new_password, command_id, ret, instance_ids, sent, results, retries, all_complete,
                   idx, last_query, report>>

\* updates_pass_ip.py 345-373; reset_password_aws_cli.py 195-208: the operator
\* may decline to go on without the unavailable instances, mistype the
\* confirmation password, or decline the final confirmation
Prompts ==
    /\ pc = "prompt"
    /\ \E proceed \in BOOLEAN, user \in Usernames, password \in Passwords,
          confirm_password \in Passwords, confirm \in BOOLEAN :
         IF variant = "ip" /\ unavailable_instances # <<>> /\ ~proceed
         THEN Exit(0) /\ UNCHANGED <<username, new_password>>
         ELSE /\ username' = user
              /\ new_password' = password
              /\ IF password # confirm_password THEN Exit(1)
                 ELSE IF ~confirm THEN Exit(0)
                 ELSE pc' = "dispatch" /\ UNCHANGED exit_code
    /\ UNCHANGED <<variant, sleeps, queries, clients, servers, ssh_results, summary, unresolved, warned, tag_match, command_id, ret, instance_ids, listing, available_instances,
                   unavailable_instances, sent, results, retries, all_complete,
                   idx, last_query, report>>

---------------------------------------------------------------------------
(* update_password.                                                        *)

\* update_password returned the failure dict `failure`: main prints it and
\* exits with status 1 (updates_pass_ip.py 379-381; reset_password_aws_cli.py
\* 214-216); another caller gets the dict
ReturnFailure(failure) ==
    /\ ret' = failure
    /\ IF variant = "call"
       THEN pc' = "returned" /\ UNCHANGED exit_code
       ELSE Exit(1)

\* RefusesEmpty without the guard
RefusesEmptyNever(ids) == FALSE

\* updates_pass_ip.py 240-241; reset_password_aws_cli.py 67-68
RefusesEmpty(ids) == ids = <<>>

\* lines 247 / 74: the shell command, as the pieces it is formatted from
CommandText(user, password) ==
    <<"echo '", user, ":", password, "' | sudo chpasswd">>

\* Comment with the new password written into it
CommentWithPassword(user, password) ==
    <<"Update password for user ", user, " to ", password>>

\* lines 255 / 82: the Comment of the command
Comment(user, password) == <<"Update password for user ", user>>

\* SubmittedIds with the command addressed to the first target only
SubmittedIdsFirstOnly(ids) == <<Head(ids)>>

\* lines 252 / 79: InstanceIds=instance_ids
SubmittedIds(ids) == ids

\* Acknowledged with a failed submission taken for a submitted one
AcknowledgedAlways(answer) == TRUE

\* lines 251-258 / 78-85: send_command returned a response instead of raising
Acknowledged(answer) == answer = "ok"

\* updates_pass_ip.py 240-273, 316-317 and main 377-381;
\* reset_password_aws_cli.py 67-96, 133-134 and main 212-216
SendCommand ==
    /\ pc = "dispatch"
    /\ IF RefusesEmpty(Targets)
       THEN /\ ReturnFailure(Failure(MsgNoInstances))
            /\ UNCHANGED <<sent, results, retries, all_complete, command_id>>
       ELSE \E answer \in {"ok", ErrClient, ErrOther}, cid \in CommandIds :
              /\ sent' = Append(sent, [ids        |-> SubmittedIds(Targets),
                                       command    |-> CommandText(username, new_password),
                                       comment    |-> Comment(username, new_password),
                                       answer     |-> answer,
                                       command_id |-> IF answer = "ok" THEN cid ELSE NoCommand])
              /\ IF Acknowledged(answer)
                 THEN /\ command_id' = cid
                      /\ results' = InitialResults(Targets)
                      /\ all_complete' = FALSE
                      /\ retries' = 0
                      /\ pc' = "loop"
                      /\ UNCHANGED <<ret, exit_code>>
                 ELSE IF answer = ErrClient
                 THEN /\ ReturnFailure(Failure(MsgSendError))
                      /\ UNCHANGED <<results, retries, all_complete, command_id>>
                 ELSE /\ Crash
                      /\ UNCHANGED <<ret, results, retries, all_complete, command_id>>
    /\ UNCHANGED <<variant, sleeps, queries, clients, servers, ssh_results, summary, unresolved, warned, tag_match, username, new_password, instance_ids, listing,
                   available_instances, unavailable_instances, idx, last_query, report>>

\* the while condition, updates_pass_ip.py 275 / reset_password_aws_cli.py 98
LoopContinues(complete, n) == ~complete /\ n < max_retries

\* SleptOnce with the round opened without a pause
SleptNever(n) == n

\* lines 276 / 99: time.sleep(10), the first statement of every round
SleptOnce(n) == n + 1

\* updates_pass_ip.py 275-282; reset_password_aws_cli.py 98-101: the loop
\* condition holds, the round sleeps, counts itself and assumes completion
BeginRound ==
    /\ pc = "loop"
    /\ LoopContinues(all_complete, retries)
    /\ sleeps' = SleptOnce(sleeps)
    /\ retries' = retries + 1
    /\ all_complete' = TRUE
    /\ idx' = 1
    /\ last_query' = <<>>
    /\ pc' = "poll"
    /\ UNCHANGED <<variant, queries, clients, servers, ssh_results, summary, unresolved, warned, tag_match, username, new_password, command_id, ret, exit_code, instance_ids, listing, available_instances,
                   unavailable_instances, sent, results, report>>

\* lines 288 / 107: CommandId=command_id
QueryCommandId(cid) == cid

\* updates_pass_ip.py 284-310; reset_password_aws_cli.py 103-129: the for loop
\* reaches position idx of the list
PollStep ==
    /\ pc = "poll"
    /\ idx <= Len(Targets)
    /\ LET id == Targets[idx]
           st == [results |-> results, all_complete |-> all_complete,
                  raised |-> FALSE, queried |-> FALSE]
       IN  \E answer \in Answers :
             LET next == VisitInstance(st, id, answer)
             IN  \* a target that is skipped draws no answer from the channel
                 /\ NeedsPoll(results[id].status) \/ answer = "Pending"
                 /\ results' = next.results
                 /\ all_complete' = next.all_complete
                 /\ last_query' = IF next.queried
                                  THEN <<id, answer, QueryCommandId(command_id)>>
                                  ELSE <<>>
                 /\ IF next.raised
                    THEN Crash /\ UNCHANGED idx
                    ELSE /\ idx' = idx + 1
                         /\ pc' = IF idx = Len(Targets) THEN "loop" ELSE "poll"
                         /\ UNCHANGED exit_code
    /\ UNCHANGED <<variant, sleeps, clients, servers, ssh_results, summary, unresolved, warned, tag_match, username, new_password, command_id, ret, instance_ids, listing, available_instances,
                   unavailable_instances, sent, retries, report>>

\* the step of the loop; the calls of the channel are not counted
PollInstance ==
    /\ PollStep
    /\ UNCHANGED queries

\* the same step, with the call of get_command_invocation (lines 287 / 106)
\* counted when the step makes it
PollInstanceCounted ==
    /\ PollStep
    /\ queries' = IF last_query' # <<>> THEN queries + 1 ELSE queries

\* updates_pass_ip.py 275, 312-314; reset_password_aws_cli.py 98, 131: the
\* loop condition fails and update_password returns the results
ReturnResults ==
    /\ pc = "loop"
    /\ ~LoopContinues(all_complete, retries)
    /\ pc' = "returned"
    /\ ret' = Success
    /\ last_query' = <<>>
    /\ UNCHANGED <<variant, sleeps, queries, clients, servers, ssh_results, summary, unresolved, warned, tag_match, username, new_password, command_id, exit_code, instance_ids, listing, available_instances,
                   unavailable_instances, sent, results, retries, all_complete,
                   idx, report>>

\* updates_pass_ip.py 383-397; reset_password_aws_cli.py 218-232; main then
\* ends and the interpreter exits with status 0
Report ==
    /\ pc = "returned"
    /\ variant # "call"
    /\ report' = [success_count |-> SuccessCount(results),
                  failed_count  |-> FailedCount(Targets, results),
                  total         |-> Len(Targets),
                  errors        |-> ErrorsListed(Targets, results)]
    /\ pc' = "done"
    /\ exit_code' = 0
    /\ UNCHANGED <<variant, sleeps, queries, clients, servers, ssh_results, summary, unresolved, warned, tag_match, username, new_password, command_id, ret, instance_ids, listing, available_instances,
                   unavailable_instances, sent, results, retries, all_complete,
                   idx, last_query>>

---------------------------------------------------------------------------
(* password_update.py: the same change made over SSH, one server at a time.*)

\* what exec_command and the wait for the exit status can end with
ExecAnswers == {"exit 0", "exit nonzero", ErrOther}

StderrText    == "<stderr>"
ExceptionText == "<str(e)>"

\* password_update.py 55-62, as the pieces the message is formatted from
SshMessage(hostname, target_username, answer) ==
    CASE answer = "exit 0" ->
           <<"Password updated successfully for ", target_username, " on ", hostname>>
      [] answer = "exit nonzero" ->
           <<"Failed to update password on ", hostname, ": ", StderrText>>
      [] OTHER ->
           <<"Error connecting to ", hostname, ": ", ExceptionText>>

\* password_update.py 36-65: update_password returns (success, message);
\* main appends (hostname, success, message) to results (line 121)
SshAttempt(hostname, target_username, password, answer) ==
    [hostname |-> hostname,
     success  |-> answer = "exit 0",
     message  |-> SshMessage(hostname, target_username, answer)]

\* IsClosed with the client closed only after the command succeeded
IsClosedOnSuccessOnly(answer) == answer = "exit 0"

\* password_update.py 64-65: finally: client.close(), whatever the try block did
IsClosed(answer) == TRUE

\* password_update.py 36-65: the client of one call, as the call leaves it
SshClient(hostname, answer) ==
    [hostname |-> hostname, answer |-> answer, closed |-> IsClosed(answer)]

\* password_update.py 129-137
SshSummaryOf(hosts, res) ==
    LET success_count == Cardinality({i \in DOMAIN res : res[i].success})
    IN  [success_count |-> success_count,
         failed_count  |-> Len(hosts) - success_count,
         total         |-> Len(hosts),
         errors        |-> IF Len(hosts) - success_count > 0
                           THEN SelectSeq(res, LAMBDA r : ~r.success)
                           ELSE <<>>]

\* password_update.py 71-82
SshReadServers ==
    /\ pc = "servers"
    /\ variant = "ssh"
    /\ \E file_found \in BOOLEAN, lines \in SeqsUpTo(Hostnames, MaxLen) :
         IF ~file_found \/ lines = <<>>
         THEN Exit(1) /\ UNCHANGED servers
         ELSE servers' = lines /\ pc' = "ssh_prompt" /\ UNCHANGED exit_code
    /\ UNCHANGED <<variant, sleeps, queries, clients, ssh_results, summary, unresolved, warned, tag_match,
                   username, new_password, command_id, ret, instance_ids, listing,
                   available_instances, unavailable_instances, sent, results,
                   retries, all_complete, idx, last_query, report>>

\* password_update.py 84-108: int() raises ValueError on a port that is no number
SshPrompts ==
    /\ pc = "ssh_prompt"
    /\ \E target_username \in Usernames, password \in Passwords,
          confirm_password \in Passwords, port_is_number \in BOOLEAN,
          confirm \in BOOLEAN :
         /\ username' = target_username
         /\ new_password' = password
         /\ IF password # confirm_password THEN Exit(1)
            ELSE IF ~port_is_number THEN Crash
            ELSE IF ~confirm THEN Exit(0)
            ELSE pc' = "ssh_loop" /\ UNCHANGED exit_code
    /\ UNCHANGED <<variant, sleeps, queries, clients, servers, ssh_results, summary, unresolved, warned,
                   tag_match, command_id, ret, instance_ids, listing,
                   available_instances, unavailable_instances, sent, results,
                   retries, all_complete, idx, last_query, report>>

\* password_update.py 111-124: one pass of `for hostname in servers`
SshUpdateNext ==
    /\ pc = "ssh_loop"
    /\ Len(ssh_results) < Len(servers)
    /\ \E answer \in ExecAnswers :
         LET hostname == servers[Len(ssh_results) + 1]
         IN  /\ ssh_results' = Append(ssh_results,
                                      SshAttempt(hostname, username, new_password, answer))
             /\ clients' = Append(clients, SshClient(hostname, answer))
    /\ UNCHANGED <<variant, sleeps, queries, pc, exit_code, servers, summary, unresolved, warned,
                   tag_match, username, new_password, command_id, ret,
                   instance_ids, listing, available_instances,
                   unavailable_instances, sent, results, retries, all_complete,
                   idx, last_query, report>>

\* password_update.py 126-137, then main returns
SshSummary ==
    /\ pc = "ssh_loop"
    /\ Len(ssh_results) = Len(servers)
    /\ summary' = SshSummaryOf(servers, ssh_results)
    /\ pc' = "ssh_done"
    /\ exit_code' = 0
    /\ UNCHANGED <<variant, sleeps, queries, clients, servers, ssh_results, unresolved, warned, tag_match,
                   username, new_password, command_id, ret, instance_ids, listing,
                   available_instances, unavailable_instances, sent, results,
                   retries, all_complete, idx, last_query, report>>

Next ==
    \/ SelectByAddress
    \/ SelectById
    \/ SelectByTag
    \/ InvalidChoice
    \/ CallUpdatePassword
    \/ VerifySsm
    \/ Prompts
    \/ SendCommand
    \/ BeginRound
    \/ PollInstance
    \/ ReturnResults
    \/ Report
    \/ SshReadServers
    \/ SshPrompts
    \/ SshUpdateNext
    \/ SshSummary

Spec == Init /\ [][Next]_vars

\* update_password called directly, every call of the channel counted
InitQueries == Init /\ variant = "call"

NextQueries ==
    \/ CallUpdatePassword
    \/ SendCommand
    \/ BeginRound
    \/ PollInstanceCounted
    \/ ReturnResults

SpecQueries == InitQueries /\ [][NextQueries]_vars

---------------------------------------------------------------------------
(* Vocabulary of the properties.                                           *)

\* the statuses of the specification's outcome enum that are terminal, in
\* the words the code records (Succeeded is recorded as Success; Unavailable
\* is never recorded in results)
TerminalStatuses == {"Success", "Failed", "Error", "TimedOut"}

NonTerminalStatuses == {"Pending", "InProgress"}

Returned == pc \in {"returned", "done"}

Distinct(s) == \A i, j \in DOMAIN s : s[i] = s[j] => i = j

\* the target and the answer of the status query made by the step, if any
QueriedId == last_query'[1]
QueriedAnswer == last_query'[2]
QueryStep == pc = "poll" /\ last_query' # <<>>

---------------------------------------------------------------------------
(* C1  Timeout law: when update_password returns, no dispatched target is  *)
(* left with a non-terminal status; a target still Pending or InProgress   *)
(* after max_retries rounds is returned as TimedOut.                       *)
C1_TimeoutLaw ==
    Returned =>
        \A id \in DOMAIN results : results[id].status \notin NonTerminalStatuses

(* C2  A status query that raises is transient: the step leaves the        *)
(* status of the queried target as it was, so that the target is queried   *)
(* again in the next round.                                                *)
C2_QueryFailureIsTransient ==
    [][(QueryStep /\ QueriedAnswer \in {ErrClient, ErrInvalidInstance} /\ QueriedId \in DOMAIN results')
          => results'[QueriedId].status = results[QueriedId].status]_vars

(* C3  After convergence the reported succeeded and failed counts add up   *)
(* to the number of dispatched targets, and for a set of targets (no id    *)
(* twice) the two counts are the sizes of two buckets that partition the   *)
(* targets: the successful ones and the ones listed with an error.         *)
C3_CountsCoverTargets ==
    pc = "done" =>
        /\ report.success_count + report.failed_count = Len(Targets)
        /\ report.total = Len(Targets)
        /\ Distinct(Targets) =>
              LET succeeded == {id \in Range(Targets) : results[id].status = "Success"}
              IN  /\ report.success_count = Cardinality(succeeded)
                  /\ report.failed_count = Cardinality(report.errors)
                  /\ report.errors \cap succeeded = {}
                  /\ report.errors \cup succeeded = Range(Targets)

C3_Witness ==
    /\ pc = "done"
    /\ Len(Targets) = 2
    /\ Distinct(Targets)
    /\ report.success_count = 1
    /\ report.failed_count = 1

(* C4  The reported counts derive strictly from terminal statuses:         *)
(* succeeded is the number of targets whose final status is Success and    *)
(* failed the number whose final status is Failed, Error, Unavailable or   *)
(* TimedOut.                                                               *)
C4_CountsFromTerminalStatuses ==
    pc = "done" =>
        /\ report.success_count =
              Cardinality({id \in DOMAIN results : results[id].status = "Success"})
        /\ report.failed_count =
              Cardinality({id \in DOMAIN results :
                  results[id].status \in {"Failed", "Error", "Unavailable", "TimedOut"}})

(* C5  No outcome leaves a terminal status: a step never changes the       *)
(* status or the message of a target whose status is terminal.             *)
C5_TerminalIsFinal ==
    [][\A id \in DOMAIN results :
          results[id].status \in TerminalStatuses
              => (id \in DOMAIN results' /\ results'[id] = results[id])]_vars

\* a target that is terminal was visited in a round and passed over
C5_Witness ==
    /\ pc \in {"poll", "loop"}
    /\ idx >= 2
    /\ retries >= 2
    /\ last_query = <<>>
    /\ results[Targets[idx - 1]].status \in TerminalStatuses

(* C6  A status query is made only for a target whose status is Pending    *)
(* or InProgress at that moment; a target that reached another status is   *)
(* never queried again.                                                    *)
C6_OnlyRunningQueried ==
    [][QueryStep => results[QueriedId].status \in NonTerminalStatuses]_vars

\* in a later round one target is queried while its sibling is finished
C6_Witness ==
    /\ last_query # <<>>
    /\ retries >= 2
    /\ \E id \in DOMAIN results :
          id # last_query[1] /\ results[id].status \in TerminalStatuses

(* C7  The loop runs at most max_retries rounds, starts a further round    *)
(* only while some target is still Pending or InProgress (it ends exactly  *)
(* at the end of the first round after which every outcome is final), and  *)
(* returns with a target still Pending or InProgress only when the rounds  *)
(* are used up.                                                            *)
C7_LoopBoundAndEarlyExit ==
    [][/\ retries' <= max_retries
       /\ (pc = "loop" /\ pc' = "poll")
             => \E id \in DOMAIN results : results[id].status \in NonTerminalStatuses
       /\ (pc = "loop" /\ pc' = "returned")
             => \/ \A id \in DOMAIN results : results[id].status \notin NonTerminalStatuses
                \/ retries = max_retries]_vars

\* the outcome of a round as update_password can return it
RoundOutcome(st) ==
    IF st.raised THEN [raised |-> TRUE]
    ELSE [raised |-> FALSE, results |-> st.results, all_complete |-> st.all_complete]

\* `ids` polled in the order `order` of its positions
Reordered(ids, order) == [i \in DOMAIN ids |-> ids[order[i]]]

(* C8  Determinism: at the start of every round, whatever the channel      *)
(* answers for each target in that round, polling the targets in any       *)
(* other order gives the same results map and the same decision to go on,  *)
(* and the entry of each target is a function of its own entry and its     *)
(* own answer alone.  By induction over the rounds the returned map does   *)
(* not depend on the poll order.                                           *)
C8_PollOrderIndependent ==
    (pc = "poll" /\ idx = 1) =>
        LET st == [results |-> results, all_complete |-> all_complete,
                   raised |-> FALSE, queried |-> FALSE]
            running == {id \in Range(Targets) : results[id].status \in NonTerminalStatuses}
        IN  \* only the targets still running are asked, so only they have an answer
            \A asked \in [running -> Answers] :
              LET answers == [id \in Range(Targets) |->
                                 IF id \in running THEN asked[id] ELSE "Pending"]
                  here == PollRound(Targets, st, answers)
              IN  /\ \A order \in Orderings(DOMAIN Targets) :
                        RoundOutcome(PollRound(Reordered(Targets, order), st, answers))
                            = RoundOutcome(here)
                  /\ ~here.raised =>
                        \A id \in Range(Targets) :
                            here.results[id] =
                                IF results[id].status \in NonTerminalStatuses
                                THEN Recorded(results[id], answers[id])
                                ELSE results[id]

\* a later round starts with two targets, one of them still running
C8_Witness ==
    /\ pc = "poll"
    /\ idx = 1
    /\ retries >= 2
    /\ Len(Targets) = 2
    /\ Distinct(Targets)
    /\ results[Targets[1]].status = "Failed"
    /\ results[Targets[2]].status = "InProgress"

\* the raw codes other than the literal InProgress that stand for a command
\* still executing
ActiveCodes == {"InProgress", "Delayed"}

(* C9  Status mapping: a query answered with a success code records        *)
(* Success, with a failure code Failed, for a target the channel does not  *)
(* know (InvalidInstanceId) Error, and with any code of active execution   *)
(* InProgress, the round then not being complete.                          *)
C9_StatusMapping ==
    [][(QueryStep /\ pc' # "crashed") =>
          LET recorded == results'[QueriedId].status
          IN  /\ QueriedAnswer = "Success" => recorded = "Success"
              /\ QueriedAnswer = "Failed" => recorded = "Failed"
              /\ QueriedAnswer = ErrInvalidInstance => recorded = "Error"
              /\ QueriedAnswer \in ActiveCodes =>
                    (recorded = "InProgress" /\ all_complete' = FALSE)]_vars

(* C10 Dispatch guard: send_command is called only in a run in which       *)
(* resolution gave at least one target and, where availability is          *)
(* verified, the listing succeeded and at least one resolved target is     *)
(* reachable; the call is addressed to those targets.                      *)
C10_DispatchGuard ==
    sent # <<>> =>
        /\ instance_ids # <<>>
        /\ variant = "ip" =>
              /\ listing = "ok"
              /\ available_instances # <<>>
        /\ \A i \in DOMAIN sent :
              /\ sent[i].ids # <<>>
              /\ Range(sent[i].ids) \subseteq Range(instance_ids)

\* the listing failed for a resolved list and the run ended without a dispatch
C10_Witness ==
    /\ variant = "ip"
    /\ pc = "exit"
    /\ instance_ids # <<>>
    /\ listing = "failed"
    /\ sent = <<>>

(* C11 Dispatch on an empty target set is refused: update_password called  *)
(* with no instance id returns a failure result, and neither submits a     *)
(* command nor issues a status query.                                      *)
C11_EmptyBatchRefused ==
    (variant = "call" /\ pc \notin {"select", "dispatch"} /\ instance_ids = <<>>) =>
        /\ ret = Failure(MsgNoInstances)
        /\ sent = <<>>
        /\ results = <<>>
        /\ retries = 0
        /\ last_query = <<>>

\* update_password was called with the empty list and has returned
C11_Witness ==
    /\ variant = "call"
    /\ pc = "returned"
    /\ instance_ids = <<>>
    /\ ret.returned
    /\ ~ret.success

(* C12 A submission that raises fails the dispatch as a whole: no outcome  *)
(* map exists, no status query is issued, no round is run, and the run     *)
(* ends with an error (main: exit status 1) instead of a report.           *)
C12_NoPartialBatch ==
    (sent # <<>> /\ sent[Len(sent)].answer # "ok") =>
        /\ results = <<>>
        /\ retries = 0
        /\ last_query = <<>>
        /\ command_id = NoCommand
        /\ report = NoReport
        /\ ~ret.success
        /\ pc \in {"exit", "crashed", "returned"}
        /\ variant # "call" => exit_code = 1

\* main ended with status 1 on a submission the channel rejected
C12_Witness ==
    /\ variant = "ip"
    /\ sent # <<>>
    /\ sent[1].answer = ErrClient
    /\ pc = "exit"
    /\ ret = Failure(MsgSendError)

\* the order of the pipeline's stages
StageRank(position) ==
    CASE position = "select"   -> 0
      [] position = "verify"   -> 1
      [] position = "prompt"   -> 2
      [] position = "dispatch" -> 3
      [] position \in {"loop", "poll"} -> 4
      [] position = "returned" -> 5
      [] position = "done"     -> 6
      [] OTHER                 -> 7

(* C13 The command is submitted at most once per run, addressed to the     *)
(* whole list of reachable targets; every status query follows an          *)
(* acknowledged submission and carries the command id that submission      *)
(* returned; no step goes back to an earlier stage of the pipeline.        *)
C13_SingleSubmission ==
    [][/\ Len(sent') <= 1
       /\ sent' # <<>> => sent'[1].ids = Targets'
       /\ last_query' # <<>> =>
             /\ sent' # <<>>
             /\ sent'[1].answer = "ok"
             /\ last_query'[3] = sent'[1].command_id
             /\ last_query'[3] \in CommandIds
       /\ StageRank(pc') >= StageRank(pc)]_vars

\* a query of a later round, for a command sent to two reachable targets
C13_Witness ==
    /\ variant = "ip"
    /\ last_query # <<>>
    /\ retries >= 2
    /\ Len(sent) = 1
    /\ Len(sent[1].ids) = 2
    /\ last_query[3] = sent[1].command_id

(* C14 Partition: once the availability check classified the resolved      *)
(* list, the unavailable targets and the reachable ones are disjoint and    *)
(* together make the whole resolved list, whether the listing answered or   *)
(* failed with a client error; the batch that is sent is the reachable part.*)
C14_AvailabilityPartition ==
    (variant = "ip" /\ (listing = "ok" \/ (listing = "failed" /\ pc = "exit"))) =>
        /\ Range(available_instances) \cap Range(unavailable_instances) = {}
        /\ Range(available_instances) \cup Range(unavailable_instances)
              = Range(instance_ids)
        /\ sent # <<>> =>
              /\ Range(sent[1].ids) = Range(available_instances)
              /\ Range(sent[1].ids) \cap Range(unavailable_instances) = {}

\* a command went out to the reachable one of two resolved instances
C14_Witness ==
    /\ variant = "ip"
    /\ listing = "ok"
    /\ Len(instance_ids) = 2
    /\ Len(available_instances) = 1
    /\ Len(unavailable_instances) = 1
    /\ sent # <<>>
    /\ sent[1].answer = "ok"

(* C15 Unique ids: the list of targets handed to update_password, and used  *)
(* as the denominator of the report, holds every instance id once, also     *)
(* when the operator's input names the same instance several times.         *)
C15_UniqueIdsInBatch ==
    variant \in {"ip", "cli"} =>
        /\ sent # <<>> => Distinct(sent[1].ids)
        /\ pc = "done" => report.total = Cardinality(Range(Targets))

(* C16 Isolation: from the dispatch on, the run goes on to the report; the  *)
(* results hold one entry per dispatched target, Pending at first; whatever *)
(* a status query answers or raises, the round goes on with the next target.*)
C16_FailuresIsolated ==
    [][/\ (pc = "dispatch" /\ pc' = "loop") =>
             /\ DOMAIN results' = Range(Targets)
             /\ \A id \in Range(Targets) : results'[id].status = "Pending"
       /\ pc \in {"loop", "poll"} =>
             /\ pc' \in {"loop", "poll", "returned"}
             /\ DOMAIN results' = Range(Targets)
       /\ pc = "poll" =>
             /\ pc' \in {"loop", "poll"}
             /\ idx' = idx + 1]_vars

(* C17 Unresolved addresses: every requested address that got no running    *)
(* instance is printed by name, also when no address of the request got one.*)
C17_UnresolvedReported ==
    pc # "select" => Range(unresolved) \subseteq Range(warned)

(* C18 Exit status: a run that printed the report ends with status 0        *)
(* exactly when the failed count of the report is 0.                        *)
C18_ExitStatus ==
    /\ pc = "done" => (exit_code = 0 <=> report.failed_count = 0)
    /\ pc = "ssh_done" => (exit_code = 0 <=> summary.failed_count = 0)

(* C19 The new password is no part of the command's comment, of the         *)
(* returned message, of a result message or of the report; the comment is   *)
(* the one any other password would have given.                             *)
C19_PasswordNotDisclosed ==
    /\ \A i \in DOMAIN sent :
          /\ Range(sent[i].comment) \cap Passwords = {}
          /\ \A other \in Passwords : Comment(username, other) = sent[i].comment
    /\ ret.message \notin Passwords
    /\ \A id \in DOMAIN results : results[id].message \notin Passwords
    /\ report.errors \cap Passwords = {}
    /\ \A i \in DOMAIN ssh_results : Range(ssh_results[i].message) \cap Passwords = {}
    /\ \A i \in DOMAIN summary.errors :
          Range(summary.errors[i].message) \cap Passwords = {}

\* the report of a run in which the password was sent and a target failed
C19_Witness ==
    /\ pc = "done"
    /\ new_password \in Passwords
    /\ sent # <<>>
    /\ Range(sent[1].command) \cap Passwords = {new_password}
    /\ report.failed_count > 0

(* C20 Tag selection: for every answer of the tag query, the resolved list  *)
(* holds exactly the matching instances whose state is running, each once;  *)
(* a command is never sent to a matching instance in another state.         *)
C20_TagSelectsRunning ==
    (tag_match # <<>> /\ pc # "select") =>
        /\ Range(instance_ids) = {i \in InstanceIds : tag_match[i] = "running"}
        /\ Distinct(instance_ids)
        /\ \A k \in DOMAIN sent :
              \A i \in Range(sent[k].ids) : tag_match[i] = "running"

\* a command sent after a tag query that matched a running and a stopped instance
C20_Witness ==
    /\ tag_match # <<>>
    /\ \E i, j \in InstanceIds : tag_match[i] = "running" /\ tag_match[j] = "stopped"
    /\ sent # <<>>
    /\ sent[1].answer = "ok"

\* how far a recorded status is along Pending -> InProgress -> finished
ProgressRank(status) ==
    CASE status = "Pending"    -> 0
      [] status = "InProgress" -> 1
      [] OTHER                 -> 2

(* C21 Monotonic progression: no step moves the recorded status of a       *)
(* target backwards along Pending -> InProgress -> finished; a target      *)
(* recorded as InProgress is never recorded as Pending afterwards,         *)
(* whatever the channel answers.                                           *)
C21_MonotonicProgress ==
    [][\A id \in DOMAIN results :
          /\ id \in DOMAIN results'
          /\ ProgressRank(results'[id].status) >= ProgressRank(results[id].status)]_vars

(* C22 Queries: in a round every visited target whose status is Pending   *)
(* or InProgress at that moment is queried once and the loop moves on,     *)
(* every other visit queries nothing; a round starts with a sleep, so no   *)
(* query is made before the first sleep; the number of queries never       *)
(* exceeds the number of rounds, at most max_retries, times the number of  *)
(* dispatched targets.                                                     *)
C22_QueriesBounded ==
    [][/\ pc = "poll" =>
             /\ IF results[Targets[idx]].status \in NonTerminalStatuses
                THEN /\ queries' = queries + 1
                     /\ last_query' # <<>>
                     /\ last_query'[1] = Targets[idx]
                ELSE /\ queries' = queries
                     /\ last_query' = <<>>
             /\ pc' # "crashed" => idx' = idx + 1
             /\ sleeps' = sleeps
       /\ pc # "poll" => (queries' = queries /\ last_query' = <<>>)
       /\ (pc = "loop" /\ pc' = "poll") => sleeps' = sleeps + 1
       /\ sleeps' = retries'
       /\ queries' <= sleeps' * Len(Targets')
       /\ queries' <= max_retries * Len(Targets')]_vars

\* two targets that were both still running in every one of the rounds
C22_Witness ==
    /\ pc = "returned"
    /\ Len(Targets) = 2
    /\ Distinct(Targets)
    /\ retries = max_retries
    /\ queries = max_retries * 2

(* C23 SSH variant: the servers are attempted one after the other in the   *)
(* order of the file, each line once, whether earlier attempts succeeded   *)
(* or failed; a failed connection or command is returned as a result with  *)
(* success False and never ends the loop; the client of every attempt is   *)
(* closed; the summary's Successful and Failed add up to the number of     *)
(* servers.                                                                *)
C23_SshSequentialOnce ==
    [][pc = "ssh_loop" =>
          /\ pc' \in {"ssh_loop", "ssh_done"}
          /\ \/ ssh_results' = ssh_results
             \/ /\ Len(ssh_results') = Len(ssh_results) + 1
                /\ SubSeq(ssh_results', 1, Len(ssh_results)) = ssh_results
          /\ Len(ssh_results') <= Len(servers)
          /\ Len(clients') = Len(ssh_results')
          /\ \A i \in DOMAIN ssh_results' :
                /\ ssh_results'[i].hostname = servers[i]
                /\ clients'[i].hostname = servers[i]
                /\ clients'[i].closed
                /\ ssh_results'[i].success = (clients'[i].answer = "exit 0")
          /\ pc' = "ssh_done" =>
                /\ Len(ssh_results') = Len(servers)
                /\ summary'.success_count + summary'.failed_count = Len(servers)
                /\ summary'.total = Len(servers)
                /\ summary'.success_count =
                      Cardinality({i \in DOMAIN ssh_results' : ssh_results'[i].success})
                /\ Len(summary'.errors) = summary'.failed_count]_vars

\* the summary of two servers, the second one updated after the first one
\* could not be reached
C23_Witness ==
    /\ pc = "ssh_done"
    /\ Len(servers) = 2
    /\ servers[1] # servers[2]
    /\ clients[1].answer = ErrOther
    /\ ~ssh_results[1].success
    /\ ssh_results[2].success
    /\ summary.success_count = 1
    /\ summary.failed_count = 1

===========================================================================
